---------------------------- MODULE Spec2Model ----------------------------
(***************************************************************************)
(* Adaptive Smart Replay (ASR): metrics ingest, smoother, controller,      *)
(* budget cell and the budgeted replay loop of the WAL redo worker.        *)
(*                                                                         *)
(* Numbers.  The C code computes the EWMAs, pressures and aggressiveness   *)
(* in IEEE doubles.  Here a double is a fixed-point integer counting       *)
(* 1/FP units, every product or quotient rounded down to that grid.  Raw   *)
(* counters are unsigned words of CounterBits bits (uint64_t in the code)  *)
(* with wrap-around arithmetic.  WAL volume is counted in MiB, so that     *)
(* WSTAR = 10 * 1024 * 1024 bytes/s is 10 units/s.                         *)
(*                                                                         *)
(* Grain.  In Spec, SpecReplay, SpecDrain, SpecConfig, SpecConfigLoad,     *)
(* SpecLifecycle, SpecLive and SpecRestart a tick and a configuration      *)
(* update are one step each: each runs inside its locks from its first     *)
(* access to its last.  SpecLocks, SpecReaders and SpecReadersLive take    *)
(* the same code lock by lock, with the memcpy of the configuration and    *)
(* the stores of the tick in two parts.  SpecStop does the same and takes  *)
(* the loop test of the controller as a step of its own.                   *)
(*                                                                         *)
(* Load scenarios.  SpecScenario runs the smoother once per simulated      *)
(* second under a load that is the same at every tick until it stops, on   *)
(* counter words of ScenarioBits bits, wide enough never to wrap there.    *)
(* SpecSettle is the same with the controller scheduled; in SpecSurge the  *)
(* load changes from one tick to the next.                                 *)
(***************************************************************************)
EXTENDS Integers, Sequences, FiniteSets, TLC

\* ------------------------------------------------------------------ bounds
\* width of the raw counters (64 in the code)
CounterBits == 3
\* controller ticks explored
MaxTicks == 2
\* ingest calls explored
MaxIngest == 2
\* WAL records in the stream read by the replay worker
WalLen == 3
\* entries of the replay worker into ApplyXlogUntil
MaxEntries == 2
\* ticks of a load scenario, one simulated second apart
ScenarioTicks == 11
\* width of the raw counters in the load scenarios, which count hundreds of
\* calls per tick and never wrap (64 in the code)
ScenarioBits == 14
\* ticks of a run in which the load changes from tick to tick
SurgeTicks == 4

\* ------------------------------------------------------------- arithmetic
\* resolution of the fixed-point stand-in for double
FP == 1000

Mod == 2 ^ CounterBits

\* (mutant) a subtraction that saturates at 0 where the unsigned one wraps
SaturatingSub(a, b) == IF a >= b THEN a - b ELSE 0

\* uint64_t subtraction (wraps)
U64Sub(a, b) == (a - b + Mod) % Mod

\* the counter words at the width of the load scenarios
WideMod == 2 ^ ScenarioBits

WideSub(a, b) == (a - b + WideMod) % WideMod

Abs(x) == IF x < 0 THEN -x ELSE x

\* a null pointer (to a configuration, to a WAL record)
NULL == [null |-> TRUE]

\* ---------------------------------------------------------- configuration
asr_default_config ==
    [ QSTAR |-> 100 * FP,
      RSTAR |-> (5 * FP) \div 100,
      WSTAR |-> 10 * FP,
      BMIN |-> 10,
      BMAX |-> 2000,
      WQ |-> (3 * FP) \div 10,
      WM |-> (6 * FP) \div 10,
      WW |-> (1 * FP) \div 10,
      HYST |-> 20,
      MAX_STEP |-> (2 * FP) \div 10,
      enable_adaptive_sr |-> FALSE,
      verbose_metrics |-> FALSE ]

\* the defaults switched on
EnabledDefaults == [asr_default_config EXCEPT !.enable_adaptive_sr = TRUE]

\* a tuned configuration for a small node: low references, narrow budget range
SmallNode ==
    [ QSTAR |-> 2 * FP,
      RSTAR |-> (5 * FP) \div 100,
      WSTAR |-> 1 * FP,
      BMIN |-> 2,
      BMAX |-> 27,
      WQ |-> (5 * FP) \div 10,
      WM |-> (3 * FP) \div 10,
      WW |-> (2 * FP) \div 10,
      HYST |-> 2,
      MAX_STEP |-> (2 * FP) \div 10,
      enable_adaptive_sr |-> TRUE,
      verbose_metrics |-> TRUE ]

\* the same, switched off
SmallNodeOff == [SmallNode EXCEPT !.enable_adaptive_sr = FALSE]

\* configurations a caller hands to ASR_UpdateConfig: all well-formed
\* (BMIN >= 1, BMAX > BMIN, weights >= 0, MAX_STEP in (0,1])
ConfigSet == {asr_default_config, EnabledDefaults, SmallNode, SmallNodeOff}

\* whole seconds that pass between two readings of time(NULL) by the
\* controller, whose cycle is 200 ms
ElapsedSeconds == {0, 1}

\* arguments of the ingest calls
TaskCounts == {-1, 0, 1, 5}
WalBytes == {0, 4}


\* ------------------------------------------------------------------ state
Threads == {"t1", "t2"}
\* the controller thread the server bootstrap creates
Controllers == {"c1"}
\* the threads pthread_create makes when ASR_StartController is called again
\* while the thread of an earlier call has not been joined
ControllerThreads == {"c1", "c2"}
\* static pthread_t asr_controller_tid = 0: the handle of no thread
NoHandle == "0"

VARIABLES
    asr_config,              \* static ASRConfig asr_config
    asr_metrics,             \* static ASRMetricsInternal asr_metrics
    asr_shutdown_requested,  \* flag read by the controller loop
    asr_controller_tid,      \* handle of the controller thread
    ctl,                     \* the live controller threads
    now,                     \* time(NULL) as last read, seconds
    ing,                     \* the ingest callers: where each is in its call
    wrk,                     \* the replay worker inside ApplyXlogUntil
    reader_state,            \* reader_state->EndRecPtr of the replay worker
    applied,                 \* the records handed to rm_redo, in order
    obs,                     \* what the last controller tick computed
    hist,                    \* bookkeeping: calls made, increments requested,
                             \* the threads joined since they were created
    asr_config_lock,         \* static pthread_rwlock_t asr_config_lock
    metrics_lock,            \* asr_metrics.metrics_lock: its owner
    api                      \* the callers of the locked API: where each is

vars == << asr_config, asr_metrics, asr_shutdown_requested, asr_controller_tid,
           ctl, now, ing, wrk, reader_state, applied, obs, hist,
           asr_config_lock, metrics_lock, api >>

\* the locks and the threads that work under them
lockvars == << asr_config_lock, metrics_lock, api >>

\* static initializer of asr_metrics
asr_metrics_static ==
    [ replay_tasks_count |-> 0,
      hot_misses |-> 0,
      wal_bytes_received |-> 0,
      queue_ewma |-> 0,
      miss_rate_ewma |-> 0,
      wal_bps_ewma |-> 0,
      current_budget |-> 100,
      current_aggressiveness |-> 0,
      last_total_misses |-> 0,
      last_total_tasks |-> 0,
      last_wal_bytes |-> 0,
      last_measurement |-> 0 ]

\* ASR_Init on the freshly loaded process image: the default configuration is
\* copied in and the budget is set to its BMIN; nothing else is written.
InitConfig == asr_default_config
InitMetrics == [asr_metrics_static EXCEPT !.current_budget = InitConfig.BMIN]

\* no thread: the owner of a free lock
NoThread == "none"

IdleCall == [pc |-> "idle", op |-> "none", arg |-> 0, held |-> NoThread]
IdleWorker == [pc |-> "idle", lsn |-> 0, replay_budget |-> 0, records_replayed |-> 0]

NoObs ==
    [ eq |-> 0, em |-> 0, ew |-> 0, target |-> 0, agg_prev |-> 0,
      agg |-> InitMetrics.current_aggressiveness,
      tasks_delta |-> 0, misses_delta |-> 0, wal_delta |-> 0,
      budget_raw |-> InitMetrics.current_budget,
      budget_prev |-> InitMetrics.current_budget,
      budget |-> InitMetrics.current_budget,
      cfg |-> InitConfig ]

PTHREAD_RWLOCK_INITIALIZER == [readers |-> {}, writer |-> NoThread]

PTHREAD_MUTEX_INITIALIZER == NoThread

\* (mutant) a write lock that excludes nobody
wrlock_granted_always(lock) == TRUE

\* pthread_rwlock_wrlock returns once nobody holds the lock
wrlock_granted(lock) == lock.writer = NoThread /\ lock.readers = {}

\* pthread_rwlock_rdlock returns once no writer holds the lock
rdlock_granted(lock) == lock.writer = NoThread

\* (mutant) a mutex that excludes nobody
mutex_granted_always(mutex) == TRUE

\* pthread_mutex_lock returns once the mutex has no owner
mutex_granted(mutex) == mutex = NoThread

\* the thread inside ASR_UpdateConfig's critical section, if any
ConfigWriter == asr_config_lock.writer

\* the tick number that last wrote each group of fields a snapshot returns
\* (0 = the static image and ASR_Init)
NoStamp == [ewma |-> 0, agg |-> 0, budget |-> 0, time |-> 0]

\* the callers of the locked API, none of them inside a call:
\*   tick  the controller inside asr_update_smoothed_metrics; `drained`
\*         counts the ticks it has completed since ASR_Shutdown last set
\*         the stop flag, as long as the flag is set
\*   upd   the thread that calls ASR_GetConfig and ASR_UpdateConfig
\*   rdr   the thread that calls ASR_GetCurrentBudget and ASR_ReadMetrics
\*   sd    the thread that calls ASR_Shutdown
IdleApi ==
    [ tick |-> [pc |-> "idle", now |-> 0, cfg |-> InitConfig, drained |-> 0],
      upd |-> [pc |-> "idle", new_config |-> InitConfig],
      rdr |-> [budget |-> InitMetrics.current_budget, budget_tick |-> 0,
               snap |-> NoStamp, snap_floor |-> 0],
      sd |-> [pc |-> "idle", tid |-> NoHandle],
      stamp |-> NoStamp ]

\* what the ingest callers do between two ticks of a load scenario:
\* `tasks` calls of ASR_RecordReplayTask(1), `misses` calls of
\* ASR_RecordHotMiss(), one ASR_RecordWalIngest of `wal` MiB
Idle == [tasks |-> 0, misses |-> 0, wal |-> 0]
WalPressure == [tasks |-> 0, misses |-> 0, wal |-> 20]
HotMissDominated == [tasks |-> 50, misses |-> 25, wal |-> 0]
QueueSaturating == [tasks |-> 250, misses |-> 0, wal |-> 0]
QueueHeavy == [tasks |-> 500, misses |-> 0, wal |-> 0]
Loads == {Idle, WalPressure, HotMissDominated, QueueSaturating, QueueHeavy}
\* a delta far above every reference, as a counter that jumps gives
QueueSurge == [tasks |-> 1000, misses |-> 0, wal |-> 0]
SurgeLoads == {Idle, WalPressure, QueueSurge}

\* bookkeeping of a load scenario, none begun:
\*   load      the load per tick it began with
\*   varied    a later tick period had another load, other than none
\*   quiesced  the inputs have stopped for good
\*   from      the aggressiveness when they stopped
\*   quiet     ticks since they stopped
\*   lagged    one of these ticks found the weighted pressure less than
\*             MAX_STEP below the aggressiveness
NoScenario ==
    [ pc |-> "ingest", begun |-> FALSE, load |-> Idle, ticks |-> 0,
      varied |-> FALSE,
      quiesced |-> FALSE, from |-> 0, quiet |-> 0, lagged |-> FALSE ]

Init ==
    /\ asr_config_lock = PTHREAD_RWLOCK_INITIALIZER
    /\ metrics_lock = PTHREAD_MUTEX_INITIALIZER
    /\ api = IdleApi
    /\ asr_config = InitConfig
    /\ asr_metrics = InitMetrics
    /\ asr_shutdown_requested = 0
    /\ asr_controller_tid = NoHandle
    /\ ctl = {}
    /\ now = 1
    /\ ing = [t \in Threads |-> IdleCall]
    /\ wrk = IdleWorker
    /\ reader_state = 0
    /\ applied = << >>
    /\ obs = NoObs
    /\ hist = [ ticks |-> 0, calls |-> 0, entries |-> 0,
                ever_enabled |-> InitConfig.enable_adaptive_sr,
                dropped |-> FALSE, overlap |-> FALSE,
                req_tasks |-> 0, req_misses |-> 0, req_wal |-> 0,
                sum_tasks_delta |-> 0, tasks_unseen |-> FALSE,
                joined |-> {},
                sc |-> NoScenario ]


\* ----------------------------------------------------------------- ingest
\* (mutant) the guard without its test of the enable flag
IngestSkipsNoFlag(enabled, amount) == amount <= 0

\* the guard at the top of each ingest function: TRUE = return at once
IngestSkips(enabled, amount) == ~enabled \/ amount <= 0

\* (mutant) a plain store where the fetch-add belongs
atomic_store(obj, operand) == operand % Mod

\* atomic_fetch_add on a counter word
atomic_fetch_add(obj, operand) == (obj + operand) % Mod

\* (mutant) an ingest call that reads the enable flag under the read lock on
\* the configuration
IngestCallRdlock(t, op, amount, req) ==
    /\ ing[t].pc = "idle"
    /\ hist.calls < MaxIngest
    /\ rdlock_granted(asr_config_lock)
    /\ IF IngestSkips(asr_config.enable_adaptive_sr, amount)
         THEN /\ ing' = ing
              /\ hist' = [hist EXCEPT !.dropped =
                             @ \/ (~asr_config.enable_adaptive_sr /\ amount > 0)]
         ELSE /\ ing' = [ing EXCEPT ![t] = [pc |-> "add", op |-> op, arg |-> amount,
                                                held |-> ConfigWriter]]
              /\ hist' = [hist EXCEPT
                     !.calls = @ + 1,
                     ![req] = (@ + amount) % Mod,
                     !.overlap = @ \/ \E u \in Threads \ {t} :
                                         ing[u].pc = "add" /\ ing[u].op = op]
    /\ UNCHANGED << asr_config, asr_metrics, asr_shutdown_requested,
                    asr_controller_tid, ctl, now, wrk, reader_state, applied, obs >>
    /\ UNCHANGED lockvars

\* one ingest call reaches its guard; past it, the fetch-add is still to come
IngestCall(t, op, amount, req) ==
    /\ ing[t].pc = "idle"
    /\ hist.calls < MaxIngest
    /\ IF IngestSkips(asr_config.enable_adaptive_sr, amount)
         THEN /\ ing' = ing
              /\ hist' = [hist EXCEPT !.dropped =
                             @ \/ (~asr_config.enable_adaptive_sr /\ amount > 0)]
         ELSE /\ ing' = [ing EXCEPT ![t] = [pc |-> "add", op |-> op, arg |-> amount,
                                                held |-> ConfigWriter]]
              /\ hist' = [hist EXCEPT
                     !.calls = @ + 1,
                     ![req] = (@ + amount) % Mod,
                     !.overlap = @ \/ \E u \in Threads \ {t} :
                                         ing[u].pc = "add" /\ ing[u].op = op]
    /\ UNCHANGED << asr_config, asr_metrics, asr_shutdown_requested,
                    asr_controller_tid, ctl, now, wrk, reader_state, applied, obs >>
    /\ UNCHANGED lockvars

ASR_RecordReplayTask(t, count) == IngestCall(t, "replay_tasks_count", count, "req_tasks")

ASR_RecordHotMiss(t) == IngestCall(t, "hot_misses", 1, "req_misses")

ASR_RecordWalIngest(t, bytes) == IngestCall(t, "wal_bytes_received", bytes, "req_wal")

\* the fetch-add of a call that passed its guard
IngestAdd(t) ==
    /\ ing[t].pc = "add"
    /\ asr_metrics' = [asr_metrics EXCEPT ![ing[t].op] = atomic_fetch_add(@, ing[t].arg)]
    /\ ing' = [ing EXCEPT ![t] = IdleCall]
    /\ hist' = [hist EXCEPT !.tasks_unseen =
                   IF ing[t].op = "replay_tasks_count" THEN TRUE ELSE @]
    /\ UNCHANGED << asr_config, asr_shutdown_requested, asr_controller_tid, ctl,
                    now, wrk, reader_state, applied, obs >>
    /\ UNCHANGED lockvars

\* the increments of calls that passed the guard and have not added yet
Pending(op) ==
    LET RECURSIVE Sum(_)
        Sum(S) == IF S = {} THEN 0
                  ELSE LET t == CHOOSE x \in S : TRUE
                       IN (IF ing[t].pc = "add" /\ ing[t].op = op THEN ing[t].arg ELSE 0)
                          + Sum(S \ {t})
    IN Sum(Threads)

\* ---------------------------------------------------------- configuration
\* ASR_UpdateConfig: NULL is ignored, anything else is copied in whole
ASR_UpdateConfig(new_config) ==
    /\ IF new_config = NULL
         THEN UNCHANGED << asr_config, hist >>
         ELSE /\ asr_config' = new_config
              /\ hist' = [hist EXCEPT !.ever_enabled =
                             @ \/ new_config.enable_adaptive_sr]
    /\ UNCHANGED << asr_metrics, asr_shutdown_requested, asr_controller_tid, ctl,
                    now, ing, wrk, reader_state, applied, obs >>
    /\ UNCHANGED lockvars


\* --------------------------------------------------------------- smoother
\* #define EWMA_ALPHA 0.3
EWMA_ALPHA == (3 * FP) \div 10

\* (mutant) the old value carried over whole: an average that never decays
ewma_update_no_decay(old_val, new_val) ==
    (EWMA_ALPHA * new_val + FP * old_val) \div FP

\* (mutant) the old value left out of the second term
ewma_update_no_old(old_val, new_val) ==
    (EWMA_ALPHA * new_val + (FP - EWMA_ALPHA) * FP) \div FP

ewma_update(old_val, new_val) ==
    (EWMA_ALPHA * new_val + (FP - EWMA_ALPHA) * old_val) \div FP

\* (mutant) the pressure without its cap at 1.0
compute_pressure_uncapped(raw, expected) ==
    IF raw <= expected THEN 0 ELSE (raw * FP) \div expected - FP

compute_pressure(raw, expected) ==
    IF raw <= expected THEN 0
    ELSE LET e == (raw * FP) \div expected - FP
         IN IF e > FP THEN FP ELSE e

\* seconds since the last measurement, as the tick computes them
MeasureInterval(t, last_measurement) ==
    LET dt == IF last_measurement = 0 THEN FP ELSE (t - last_measurement) * FP
    IN IF dt < FP \div 10 THEN FP \div 10 ELSE dt

\* (dt > 0) ? (double)delta / dt : 0.0
PerSecond(delta, dt) == IF dt > 0 THEN (delta * FP * FP) \div dt ELSE 0

\* (mutant) the fraction computed whatever the comparison says
RawMissRateUntested(misses_delta, tasks_delta, total_tasks, last_total_tasks) ==
    (misses_delta * FP) \div (tasks_delta + 1)

\* the raw hot-miss fraction; the tick evaluates it after it has stored
\* total_tasks into last_total_tasks
RawMissRate(misses_delta, tasks_delta, total_tasks, last_total_tasks) ==
    IF total_tasks > last_total_tasks
    THEN (misses_delta * FP) \div (tasks_delta + 1)
    ELSE 0

\* ------------------------------------------------------------- controller
Clamp01(x) == IF x > FP THEN FP ELSE IF x < 0 THEN 0 ELSE x

\* cfg->WQ * eq + cfg->WM * em + cfg->WW * ew, clamped to [0,1]
WeightedAggressiveness(cfg, eq, em, ew) ==
    Clamp01((cfg.WQ * eq + cfg.WM * em + cfg.WW * ew) \div FP)

\* (mutant) no step limit
StepUnlimited(aggressiveness, current_aggressiveness, max_step) == aggressiveness

\* the step limit on the change of aggressiveness
StepLimit(aggressiveness, current_aggressiveness, max_step) ==
    LET delta_a == aggressiveness - current_aggressiveness
    IN IF Abs(delta_a) > max_step
       THEN IF delta_a > 0 THEN current_aggressiveness + max_step
                           ELSE current_aggressiveness - max_step
       ELSE aggressiveness

\* (mutant) the range laid out above BMAX instead of above BMIN
budget_from_bmax(A, cfg) ==
    cfg.BMAX + (Clamp01(A) * (cfg.BMAX - cfg.BMIN)) \div FP

budget_from_aggressiveness(A, cfg) ==
    cfg.BMIN + (Clamp01(A) * (cfg.BMAX - cfg.BMIN)) \div FP

\* (mutant) no hysteresis
HysteresisOff(new_budget, last_budget, hyst) == new_budget

\* hysteresis on the published budget
Hysteresis(new_budget, last_budget, hyst) ==
    IF Abs(new_budget - last_budget) < hyst THEN last_budget ELSE new_budget

\* asr_update_smoothed_metrics under the configuration cfg at time t:
\* the new asr_metrics and what the tick computed on the way; `wide` tells
\* the width of the counter words, that of the load scenarios or CounterBits
Smoothed(m, cfg, t, wide) ==
    LET Sub(a, b) == IF wide THEN WideSub(a, b) ELSE U64Sub(a, b)
        dt == MeasureInterval(t, m.last_measurement)
        total_tasks == m.replay_tasks_count
        total_misses == m.hot_misses
        total_wal_bytes == m.wal_bytes_received
        tasks_delta == Sub(total_tasks, m.last_total_tasks)
        queue == ewma_update(m.queue_ewma, PerSecond(tasks_delta, dt))
        last_total_tasks == total_tasks
        misses_delta == Sub(total_misses, m.last_total_misses)
        miss_rate == ewma_update(m.miss_rate_ewma,
                        RawMissRate(misses_delta, tasks_delta, total_tasks, last_total_tasks))
        wal_delta == Sub(total_wal_bytes, m.last_wal_bytes)
        wal_bps == ewma_update(m.wal_bps_ewma, PerSecond(wal_delta, dt))
        eq == compute_pressure(queue, cfg.QSTAR)
        em == compute_pressure(miss_rate, cfg.RSTAR)
        ew == compute_pressure(wal_bps, cfg.WSTAR)
        target == WeightedAggressiveness(cfg, eq, em, ew)
        aggressiveness == StepLimit(target, m.current_aggressiveness, cfg.MAX_STEP)
        budget_raw == budget_from_aggressiveness(aggressiveness, cfg)
        last_budget == m.current_budget
        new_budget == Hysteresis(budget_raw, last_budget, cfg.HYST)
    IN [ metrics |->
           [ m EXCEPT !.queue_ewma = queue,
                      !.last_total_tasks = last_total_tasks,
                      !.miss_rate_ewma = miss_rate,
                      !.last_total_misses = total_misses,
                      !.wal_bps_ewma = wal_bps,
                      !.last_wal_bytes = total_wal_bytes,
                      !.current_aggressiveness = aggressiveness,
                      !.current_budget = new_budget,
                      !.last_measurement = t ],
         obs |->
           [ eq |-> eq, em |-> em, ew |-> ew, target |-> target,
             agg_prev |-> obs.agg,
             agg |-> aggressiveness,
             tasks_delta |-> tasks_delta,
             misses_delta |-> misses_delta,
             wal_delta |-> wal_delta,
             budget_raw |-> budget_raw,
             budget_prev |-> obs.budget,
             budget |-> new_budget,
             cfg |-> cfg ] ]

\* the tick on counter words of CounterBits bits
SmoothedMetrics(m, cfg, t) == Smoothed(m, cfg, t, FALSE)

\* one cycle of asr_controller_main: the loop test, then the tick, which
\* reads time(NULL) `elapsed` seconds after the previous reading; when the
\* thread returns, a pthread_join waiting for it can return
asr_controller_main(c, elapsed) ==
    /\ c \in ctl
    /\ IF asr_shutdown_requested # 0
         THEN /\ ctl' = ctl \ {c}
              /\ api' = [api EXCEPT !.sd.pc =
                             IF @ = "join" /\ api.sd.tid = c THEN "joined" ELSE @]
              /\ UNCHANGED << asr_metrics, now, obs, hist >>
         ELSE /\ hist.ticks < MaxTicks
              /\ ctl' = ctl
              /\ api' = api
              /\ now' = now + elapsed
              /\ LET r == SmoothedMetrics(asr_metrics, asr_config, now + elapsed)
                 IN /\ asr_metrics' = r.metrics
                    /\ obs' = r.obs
                    /\ hist' = [hist EXCEPT
                           !.ticks = @ + 1,
                           !.sum_tasks_delta = (@ + r.obs.tasks_delta) % Mod,
                           !.tasks_unseen = FALSE]
    /\ UNCHANGED << asr_config, asr_shutdown_requested, asr_controller_tid,
                    ing, wrk, reader_state, applied >>
    /\ UNCHANGED << asr_config_lock, metrics_lock >>

\* what asr_controller_tid may hold after a failed pthread_create besides
\* its old value: a handle that names no thread
StaleHandle == "stale"

\* ASR_StartController: nothing when disabled; else pthread_create, which
\* returns ret (0 = created).  When it fails no thread exists and the
\* contents of asr_controller_tid are undefined: the old value or a handle
\* of no thread.  The function does not look at asr_controller_tid before
\* it creates: `threads` are the threads the process can still create.
StartController(threads, ret) ==
    /\ ctl # threads
    /\ IF ~asr_config.enable_adaptive_sr
         THEN UNCHANGED << asr_shutdown_requested, asr_controller_tid, ctl, hist >>
         ELSE /\ asr_shutdown_requested' = 0
              /\ IF ret # 0
                   THEN /\ \E h \in {asr_controller_tid, StaleHandle} :
                              asr_controller_tid' = h
                        /\ UNCHANGED << ctl, hist >>
                   ELSE LET c == CHOOSE x \in threads : x \notin ctl
                        IN /\ asr_controller_tid' = c
                           /\ ctl' = ctl \cup {c}
                           /\ hist' = [hist EXCEPT !.joined = @ \ {c}]
    /\ UNCHANGED << asr_config, asr_metrics, now, ing, wrk, reader_state,
                    applied, obs >>
    /\ UNCHANGED lockvars

\* (mutant) a start that does not look at the enable flag
ASR_StartControllerAlways(ret) ==
    /\ ctl # Controllers
    /\ asr_shutdown_requested' = 0
    /\ IF ret # 0
         THEN /\ \E h \in {asr_controller_tid, StaleHandle} :
                    asr_controller_tid' = h
              /\ UNCHANGED << ctl, hist >>
         ELSE LET c == CHOOSE x \in Controllers : x \notin ctl
              IN /\ asr_controller_tid' = c
                 /\ ctl' = ctl \cup {c}
                 /\ hist' = [hist EXCEPT !.joined = @ \ {c}]
    /\ UNCHANGED << asr_config, asr_metrics, now, ing, wrk, reader_state,
                    applied, obs >>
    /\ UNCHANGED lockvars

\* ASR_StartController called while no controller thread is running
ASR_StartController(ret) == StartController(Controllers, ret)


\* ----------------------------------------------------------- replay worker
\* ASR_GetCurrentBudget: the budget, read under metrics_lock
ASR_GetCurrentBudget == asr_metrics.current_budget

\* XLogReadRecord: the record after EndRecPtr, NULL past the end of the stream
XLogReadRecord(EndRecPtr) ==
    IF EndRecPtr < WalLen THEN [lsn |-> EndRecPtr + 1] ELSE NULL

\* (mutant) the exit test against the budget as published now
BudgetExhaustedNow(records_replayed, replay_budget, published_budget) ==
    records_replayed >= published_budget

\* the loop's exit test after an applied record
BudgetExhausted(records_replayed, replay_budget, published_budget) ==
    records_replayed >= replay_budget

\* (mutant) the budget test moved between XLogReadRecord and rm_redo: the
\* record that reaches the budget is read and dropped
RedoUnlessBudgetHit(done, record, records_replayed, replay_budget) ==
    IF records_replayed + 1 >= replay_budget THEN done ELSE Append(done, record)

\* rm_redo of one record
Redo(done, record, records_replayed, replay_budget) == Append(done, record)

\* entry into ApplyXlogUntil(lsn): the budget is read, the count starts at 0
ApplyXlogUntil(lsn) ==
    /\ wrk.pc = "idle"
    /\ hist.entries < MaxEntries
    /\ wrk' = [pc |-> "loop", lsn |-> lsn,
               replay_budget |-> ASR_GetCurrentBudget, records_replayed |-> 0]
    /\ hist' = [hist EXCEPT !.entries = @ + 1]
    /\ UNCHANGED << asr_config, asr_metrics, asr_shutdown_requested,
                    asr_controller_tid, ctl, now, ing, reader_state, applied, obs >>
    /\ UNCHANGED lockvars

\* one pass of the while loop: the loop test, the read, the redo, the
\* bookkeeping with ASR_RecordReplayTask(1), the budget test
ApplyLoop ==
    /\ wrk.pc = "loop"
    /\ LET record == XLogReadRecord(reader_state)
       IN IF ~(reader_state < wrk.lsn) \/ record = NULL
            THEN /\ wrk' = [wrk EXCEPT !.pc = "idle"]
                 /\ UNCHANGED << asr_metrics, reader_state, applied, hist >>
            ELSE LET n == wrk.records_replayed + 1
                 IN /\ applied' = Redo(applied, record.lsn, wrk.records_replayed,
                                       wrk.replay_budget)
                    /\ reader_state' = record.lsn
                    /\ IF IngestSkips(asr_config.enable_adaptive_sr, 1)
                         THEN UNCHANGED << asr_metrics, hist >>
                         ELSE /\ asr_metrics' =
                                   [asr_metrics EXCEPT !.replay_tasks_count =
                                        atomic_fetch_add(@, 1)]
                              /\ hist' = [hist EXCEPT
                                     !.req_tasks = (@ + 1) % Mod,
                                     !.tasks_unseen = TRUE]
                    /\ wrk' = [wrk EXCEPT
                          !.records_replayed = n,
                          !.pc = IF BudgetExhausted(n, wrk.replay_budget,
                                                    asr_metrics.current_budget)
                                 THEN "idle" ELSE "loop"]
    /\ UNCHANGED << asr_config, asr_shutdown_requested, asr_controller_tid, ctl,
                    now, ing, obs >>
    /\ UNCHANGED lockvars

\* ------------------------------------------------------------------ locks
\* the threads of the locked API
ConfigCallers == {"u1"}
Readers == {"r1"}

\* --------------------------------------------- the tick, lock by lock
\* top of a controller cycle: the loop test, the read lock on the
\* configuration, time(NULL)
TickEnter(c, elapsed) ==
    /\ c \in ctl
    /\ api.tick.pc = "idle"
    /\ asr_shutdown_requested = 0
    /\ hist.ticks < MaxTicks
    /\ rdlock_granted(asr_config_lock)
    /\ asr_config_lock' = [asr_config_lock EXCEPT !.readers = @ \cup {c}]
    /\ now' = now + elapsed
    /\ api' = [api EXCEPT !.tick.pc = "entered", !.tick.now = now + elapsed]
    /\ UNCHANGED << asr_config, asr_metrics, asr_shutdown_requested,
                    asr_controller_tid, ctl, ing, wrk, reader_state, applied,
                    obs, hist, metrics_lock >>

\* (mutant) a loop that goes on whatever the stop flag says
LoopTestBlind(c) ==
    /\ c \in ctl
    /\ api.tick.pc = "idle"
    /\ hist.ticks < MaxTicks
    /\ api' = [api EXCEPT !.tick.pc = "cleared"]
    /\ UNCHANGED << asr_config, asr_metrics, asr_shutdown_requested,
                    asr_controller_tid, ctl, now, ing, wrk, reader_state,
                    applied, obs, hist, asr_config_lock, metrics_lock >>

\* while (!asr_shutdown_requested): the test alone.  The thread returns when
\* the flag is set, and a pthread_join waiting for it can return; else it
\* is cleared to call asr_update_smoothed_metrics
LoopTest(c) ==
    /\ c \in ctl
    /\ api.tick.pc = "idle"
    /\ IF asr_shutdown_requested # 0
         THEN /\ ctl' = ctl \ {c}
              /\ api' = [api EXCEPT !.sd.pc =
                             IF @ = "join" /\ api.sd.tid = c THEN "joined" ELSE @]
         ELSE /\ hist.ticks < MaxTicks
              /\ ctl' = ctl
              /\ api' = [api EXCEPT !.tick.pc = "cleared"]
    /\ UNCHANGED << asr_config, asr_metrics, asr_shutdown_requested,
                    asr_controller_tid, now, ing, wrk, reader_state, applied,
                    obs, hist, asr_config_lock, metrics_lock >>

\* the call of asr_update_smoothed_metrics by a thread that passed the
\* test: the read lock on the configuration, time(NULL)
TickBegin(c, elapsed) ==
    /\ c \in ctl
    /\ api.tick.pc = "cleared"
    /\ rdlock_granted(asr_config_lock)
    /\ asr_config_lock' = [asr_config_lock EXCEPT !.readers = @ \cup {c}]
    /\ now' = now + elapsed
    /\ api' = [api EXCEPT !.tick.pc = "entered", !.tick.now = now + elapsed]
    /\ UNCHANGED << asr_config, asr_metrics, asr_shutdown_requested,
                    asr_controller_tid, ctl, ing, wrk, reader_state, applied,
                    obs, hist, metrics_lock >>

\* metrics_lock taken; the deltas, the EWMAs, the pressures and the
\* step-limited aggressiveness are computed and stored
TickSmooth(c) ==
    /\ c \in ctl
    /\ api.tick.pc = "entered"
    /\ mutex_granted(metrics_lock)
    /\ metrics_lock' = c
    /\ LET r == SmoothedMetrics(asr_metrics, asr_config, api.tick.now).metrics
       IN asr_metrics' =
            [ asr_metrics EXCEPT
                !.queue_ewma = r.queue_ewma,
                !.last_total_tasks = r.last_total_tasks,
                !.miss_rate_ewma = r.miss_rate_ewma,
                !.last_total_misses = r.last_total_misses,
                !.wal_bps_ewma = r.wal_bps_ewma,
                !.last_wal_bytes = r.last_wal_bytes,
                !.current_aggressiveness = r.current_aggressiveness ]
    /\ api' = [api EXCEPT
          !.tick.pc = "smoothed",
          !.tick.cfg = asr_config,
          !.stamp.ewma = hist.ticks + 1,
          !.stamp.agg = hist.ticks + 1]
    /\ UNCHANGED << asr_config, asr_shutdown_requested, asr_controller_tid, ctl,
                    now, ing, wrk, reader_state, applied, obs, hist,
                    asr_config_lock >>

\* the budget is computed, passed through the hysteresis and stored with
\* the time of the measurement; both locks are released
TickPublish(c) ==
    /\ c \in ctl
    /\ api.tick.pc = "smoothed"
    /\ LET cfg == asr_config
           new_budget == budget_from_aggressiveness(
                             asr_metrics.current_aggressiveness, cfg)
       IN /\ asr_metrics' =
               [ asr_metrics EXCEPT
                   !.current_budget =
                       Hysteresis(new_budget, asr_metrics.current_budget, cfg.HYST),
                   !.last_measurement = api.tick.now ]
          /\ api' = [api EXCEPT
                !.tick.pc = "idle",
                !.tick.drained = IF asr_shutdown_requested # 0 THEN @ + 1 ELSE @,
                !.tick.cfg = [ @ EXCEPT !.BMIN = cfg.BMIN, !.BMAX = cfg.BMAX,
                                        !.HYST = cfg.HYST,
                                        !.verbose_metrics = cfg.verbose_metrics ],
                !.stamp.budget = hist.ticks + 1,
                !.stamp.time = hist.ticks + 1]
    /\ metrics_lock' = NoThread
    /\ asr_config_lock' = [asr_config_lock EXCEPT !.readers = @ \ {c}]
    /\ hist' = [hist EXCEPT !.ticks = @ + 1]
    /\ UNCHANGED << asr_config, asr_shutdown_requested, asr_controller_tid, ctl,
                    now, ing, wrk, reader_state, applied, obs >>

\* ------------------------------- configuration calls, lock by lock
\* the pointer ASR_GetConfig returns: &asr_config
ConfigPtr == [ptr |-> "asr_config"]

\* what a const ASRConfig * points at
Deref(new_config) == IF new_config = ConfigPtr THEN asr_config ELSE new_config

\* ASR_GetConfig: the read lock is taken and the pointer returned; the
\* function has no unlock and the module no function that releases
ASR_GetConfig(u) ==
    /\ api.upd.pc = "idle"
    /\ u \notin asr_config_lock.readers
    /\ rdlock_granted(asr_config_lock)
    /\ asr_config_lock' = [asr_config_lock EXCEPT !.readers = @ \cup {u}]
    /\ UNCHANGED << asr_config, asr_metrics, asr_shutdown_requested,
                    asr_controller_tid, ctl, now, ing, wrk, reader_state,
                    applied, obs, hist, metrics_lock, api >>

\* ASR_UpdateConfig up to its pthread_rwlock_wrlock
UpdateConfigCall(u, new_config) ==
    /\ api.upd.pc = "idle"
    /\ api' = IF new_config = NULL THEN api
              ELSE [api EXCEPT !.upd = [pc |-> "wrlock", new_config |-> new_config]]
    /\ UNCHANGED << asr_config, asr_metrics, asr_shutdown_requested,
                    asr_controller_tid, ctl, now, ing, wrk, reader_state,
                    applied, obs, hist, asr_config_lock, metrics_lock >>

\* the write lock is granted
UpdateConfigWrlock(u) ==
    /\ api.upd.pc = "wrlock"
    /\ wrlock_granted(asr_config_lock)
    /\ asr_config_lock' = [asr_config_lock EXCEPT !.writer = u]
    /\ api' = [api EXCEPT !.upd.pc = "copy"]
    /\ UNCHANGED << asr_config, asr_metrics, asr_shutdown_requested,
                    asr_controller_tid, ctl, now, ing, wrk, reader_state,
                    applied, obs, hist, metrics_lock >>

\* memcpy, the leading fields of the struct
UpdateConfigCopyHead(u) ==
    /\ api.upd.pc = "copy"
    /\ LET src == Deref(api.upd.new_config)
       IN asr_config' = [ asr_config EXCEPT
              !.QSTAR = src.QSTAR, !.RSTAR = src.RSTAR, !.WSTAR = src.WSTAR,
              !.BMIN = src.BMIN, !.BMAX = src.BMAX ]
    /\ api' = [api EXCEPT !.upd.pc = "copied"]
    /\ UNCHANGED << asr_metrics, asr_shutdown_requested, asr_controller_tid, ctl,
                    now, ing, wrk, reader_state, applied, obs, hist,
                    asr_config_lock, metrics_lock >>

\* memcpy, the trailing fields; the write lock is released
UpdateConfigCopyTail(u) ==
    /\ api.upd.pc = "copied"
    /\ LET src == Deref(api.upd.new_config)
       IN /\ asr_config' = [ asr_config EXCEPT
                 !.WQ = src.WQ, !.WM = src.WM, !.WW = src.WW, !.HYST = src.HYST,
                 !.MAX_STEP = src.MAX_STEP,
                 !.enable_adaptive_sr = src.enable_adaptive_sr,
                 !.verbose_metrics = src.verbose_metrics ]
          /\ hist' = [hist EXCEPT !.ever_enabled = @ \/ src.enable_adaptive_sr]
    /\ asr_config_lock' = [asr_config_lock EXCEPT !.writer = NoThread]
    /\ api' = [api EXCEPT !.upd.pc = "idle"]
    /\ UNCHANGED << asr_metrics, asr_shutdown_requested, asr_controller_tid, ctl,
                    now, ing, wrk, reader_state, applied, obs, metrics_lock >>

\* ------------------------------------------ readers of the published state
\* ASR_GetCurrentBudget as a call: lock, read, unlock
GetCurrentBudgetCall(r) ==
    /\ mutex_granted(metrics_lock)
    /\ api' = [api EXCEPT !.rdr.budget = ASR_GetCurrentBudget,
                          !.rdr.budget_tick = api.stamp.budget]
    /\ UNCHANGED << asr_config, asr_metrics, asr_shutdown_requested,
                    asr_controller_tid, ctl, now, ing, wrk, reader_state,
                    applied, obs, hist, asr_config_lock, metrics_lock >>

\* ASR_ReadMetrics: lock, copy the six fields, unlock
ASR_ReadMetrics(r) ==
    /\ mutex_granted(metrics_lock)
    /\ api' = [api EXCEPT !.rdr.snap = api.stamp,
                          !.rdr.snap_floor = api.rdr.budget_tick]
    /\ UNCHANGED << asr_config, asr_metrics, asr_shutdown_requested,
                    asr_controller_tid, ctl, now, ing, wrk, reader_state,
                    applied, obs, hist, asr_config_lock, metrics_lock >>

\* ---------------------------------------------------------------- lifecycle
\* ASR_Init, whenever it is called: the default configuration is copied in
\* and the budget set to its BMIN
ASR_Init ==
    /\ asr_config' = asr_default_config
    /\ asr_metrics' = [asr_metrics EXCEPT !.current_budget = asr_default_config.BMIN]
    /\ UNCHANGED << asr_shutdown_requested, asr_controller_tid, ctl, now, ing,
                    wrk, reader_state, applied, obs, hist >>
    /\ UNCHANGED lockvars

ShutdownCallers == {"s1"}

\* ASR_Shutdown: asr_shutdown_requested = 1
ShutdownRequest(s) ==
    /\ api.sd.pc = "idle"
    /\ asr_shutdown_requested' = 1
    /\ api' = [api EXCEPT !.sd.pc = "requested", !.tick.drained = 0]
    /\ UNCHANGED << asr_config, asr_metrics, asr_controller_tid, ctl, now, ing,
                    wrk, reader_state, applied, obs, hist, asr_config_lock,
                    metrics_lock >>

\* the test of the handle: return when it is 0, else pthread_join on it,
\* which returns at once when that thread has exited
ShutdownTest(s) ==
    /\ api.sd.pc = "requested"
    /\ api' = [api EXCEPT !.sd =
          IF asr_controller_tid = NoHandle
          THEN [pc |-> "idle", tid |-> NoHandle]
          ELSE [pc |-> IF asr_controller_tid \in ControllerThreads \ ctl
                       THEN "joined" ELSE "join",
                tid |-> asr_controller_tid]]
    /\ UNCHANGED << asr_config, asr_metrics, asr_shutdown_requested,
                    asr_controller_tid, ctl, now, ing, wrk, reader_state,
                    applied, obs, hist, asr_config_lock, metrics_lock >>

\* (mutant) a shutdown that leaves the handle of the joined thread in
\* asr_controller_tid
ShutdownJoinedKeepsHandle(s) ==
    /\ api.sd.pc = "joined"
    /\ api' = [api EXCEPT !.sd = [pc |-> "idle", tid |-> NoHandle]]
    /\ hist' = [hist EXCEPT !.joined = @ \cup ({api.sd.tid} \cap ControllerThreads)]
    /\ UNCHANGED << asr_config, asr_metrics, asr_shutdown_requested,
                    asr_controller_tid, ctl, now, ing, wrk, reader_state,
                    applied, obs, asr_config_lock, metrics_lock >>

\* pthread_join has returned: asr_controller_tid = 0, ASR_Shutdown returns
ShutdownJoined(s) ==
    /\ api.sd.pc = "joined"
    /\ asr_controller_tid' = NoHandle
    /\ api' = [api EXCEPT !.sd = [pc |-> "idle", tid |-> NoHandle]]
    /\ hist' = [hist EXCEPT !.joined = @ \cup ({api.sd.tid} \cap ControllerThreads)]
    /\ UNCHANGED << asr_config, asr_metrics, asr_shutdown_requested, ctl, now,
                    ing, wrk, reader_state, applied, obs,
                    asr_config_lock, metrics_lock >>

\* pthread_join on a handle of no thread is undefined: it returns, with an
\* error or not, or it does not return
ShutdownJoinStale(s, returns) ==
    /\ api.sd.pc = "join"
    /\ api.sd.tid = StaleHandle
    /\ api' = [api EXCEPT !.sd.pc = IF returns THEN "joined" ELSE "hung"]
    /\ UNCHANGED << asr_config, asr_metrics, asr_shutdown_requested,
                    asr_controller_tid, ctl, now, ing, wrk, reader_state,
                    applied, obs, hist, asr_config_lock, metrics_lock >>

\* configurations the specification calls malformed
Inverted == [SmallNode EXCEPT !.BMIN = 27, !.BMAX = 2]
NegativeWeight == [SmallNode EXCEPT !.WM = -((3 * FP) \div 10)]
MalformedConfigs == {Inverted, NegativeWeight}

\* ---------------------------------------------------------- load scenarios
\* n calls of an ingest function with the same amount: each passes or
\* fails the guard alike and each adds with atomic_fetch_add
RecordTimes(obj, n, amount) ==
    IF n = 0 \/ IngestSkips(asr_config.enable_adaptive_sr, amount)
    THEN obj
    ELSE (obj + n * amount) % WideMod

\* a configuration in which the queue pressure alone drives the budget
QueueDriven == [EnabledDefaults EXCEPT !.WQ = FP, !.WM = 0, !.WW = 0]

ScenarioConfigs == {EnabledDefaults, QueueDriven}

\* the ingest calls of one tick period.  A scenario keeps its load from
\* tick to tick until the inputs stop, and they stop for good.
ScenarioIngest(load) ==
    /\ hist.sc.pc = "ingest"
    /\ hist.sc.ticks < ScenarioTicks
    /\ IF hist.sc.begun
         THEN load = Idle \/ (~hist.sc.quiesced /\ load = hist.sc.load)
         ELSE TRUE
    /\ asr_metrics' =
          [ asr_metrics EXCEPT
              !.replay_tasks_count = RecordTimes(@, load.tasks, 1),
              !.hot_misses = RecordTimes(@, load.misses, 1),
              !.wal_bytes_received = RecordTimes(@, 1, load.wal) ]
    /\ LET stops == hist.sc.begun /\ ~hist.sc.quiesced /\ load # hist.sc.load
       IN hist' = [hist EXCEPT !.sc =
              [ @ EXCEPT
                  !.pc = "tick",
                  !.begun = TRUE,
                  !.load = IF hist.sc.begun THEN @ ELSE load,
                  !.quiesced = @ \/ stops,
                  !.from = IF stops THEN asr_metrics.current_aggressiveness ELSE @ ]]
    /\ UNCHANGED << asr_config, asr_shutdown_requested, asr_controller_tid, ctl,
                    now, ing, wrk, reader_state, applied, obs >>
    /\ UNCHANGED lockvars

\* the ingest calls of one tick period of a run whose load is any of
\* SurgeLoads at each period
SurgeIngest(load) ==
    /\ hist.sc.pc = "ingest"
    /\ hist.sc.ticks < SurgeTicks
    /\ asr_metrics' =
          [ asr_metrics EXCEPT
              !.replay_tasks_count = RecordTimes(@, load.tasks, 1),
              !.hot_misses = RecordTimes(@, load.misses, 1),
              !.wal_bytes_received = RecordTimes(@, 1, load.wal) ]
    /\ hist' = [hist EXCEPT !.sc =
          [ @ EXCEPT
              !.pc = "tick",
              !.begun = TRUE,
              !.load = IF hist.sc.begun THEN @ ELSE load,
              !.varied = @ \/ (hist.sc.begun /\ load # hist.sc.load) ]]
    /\ UNCHANGED << asr_config, asr_shutdown_requested, asr_controller_tid, ctl,
                    now, ing, wrk, reader_state, applied, obs >>
    /\ UNCHANGED lockvars

\* asr_update_smoothed_metrics called one second after the previous call
ScenarioTick ==
    /\ hist.sc.pc = "tick"
    /\ now' = now + 1
    /\ LET r == Smoothed(asr_metrics, asr_config, now + 1, TRUE)
       IN /\ asr_metrics' = r.metrics
          /\ obs' = r.obs
          /\ hist' = [hist EXCEPT !.sc =
                [ @ EXCEPT
                    !.pc = "ingest",
                    !.ticks = @ + 1,
                    !.quiet = IF hist.sc.quiesced THEN @ + 1 ELSE @,
                    !.lagged = @ \/ ( /\ hist.sc.quiesced
                                      /\ r.obs.target >
                                           asr_metrics.current_aggressiveness
                                             - asr_config.MAX_STEP ) ]]
    /\ UNCHANGED << asr_config, asr_shutdown_requested, asr_controller_tid, ctl,
                    ing, wrk, reader_state, applied >>
    /\ UNCHANGED lockvars

\* ------------------------------------------------------------------- specs
\* the LSNs a caller asks the worker to replay up to: inside the received
\* stream, its end, and beyond it
TargetLsns == {WalLen - 1, WalLen, WalLen + 1}

Ingest ==
    \E t \in Threads :
        \/ \E count \in TaskCounts : ASR_RecordReplayTask(t, count)
        \/ ASR_RecordHotMiss(t)
        \/ \E bytes \in WalBytes : ASR_RecordWalIngest(t, bytes)
        \/ IngestAdd(t)

Control ==
    \/ \E ret \in {0, 11} : ASR_StartController(ret)
    \/ \E c \in Controllers, elapsed \in ElapsedSeconds : asr_controller_main(c, elapsed)
    \/ \E new_config \in ConfigSet \cup {NULL} : ASR_UpdateConfig(new_config)

Replay ==
    \/ \E lsn \in TargetLsns : ApplyXlogUntil(lsn)
    \/ ApplyLoop

\* metrics ingest, controller and configuration
Next == Ingest \/ Control

Spec == Init /\ [][Next]_vars

\* the replay worker under a running controller
NextReplay == Replay \/ Control

SpecReplay == Init /\ [][NextReplay]_vars

\* the caller of the worker asks again and again for the whole stream
Draining == ApplyXlogUntil(WalLen) \/ ApplyLoop

NextDrain == Draining \/ Control

\* the worker is scheduled: an entry is made when one can be made, and a
\* loop under way goes on
SpecDrain == Init /\ [][NextDrain]_vars /\ WF_vars(Draining)

\* the configurations installed in the lock-level runs
LockConfigs == {EnabledDefaults, SmallNode}

\* the lock-level runs read time(NULL) a second after the previous reading
CycleSeconds == {1}

\* ingest calls whose arguments pass the guard
IngestLocks ==
    \E t \in Threads :
        \/ ASR_RecordReplayTask(t, 1)
        \/ ASR_RecordHotMiss(t)
        \/ ASR_RecordWalIngest(t, 4)
        \/ IngestAdd(t)

Lifecycle ==
    \/ ASR_Init
    \/ \E s \in ShutdownCallers :
          \/ ShutdownRequest(s)
          \/ ShutdownTest(s)
          \/ ShutdownJoined(s)
          \/ \E returns \in BOOLEAN : ShutdownJoinStale(s, returns)

Misconfiguring == \E new_config \in MalformedConfigs : ASR_UpdateConfig(new_config)

\* the controller thread, started under one of the enabled configurations
Running ==
    \/ \E ret \in {0, 11} : ASR_StartController(ret)
    \/ \E c \in Controllers, elapsed \in CycleSeconds : asr_controller_main(c, elapsed)
    \/ \E new_config \in LockConfigs : ASR_UpdateConfig(new_config)

\* the read handler's ingest
Missing == \E t \in Threads : ASR_RecordHotMiss(t) \/ IngestAdd(t)

\* init, start and shutdown around the running subsystem
NextLifecycle == Missing \/ Running \/ Lifecycle

SpecLifecycle == Init /\ [][NextLifecycle]_vars

\* the same under fair scheduling: a controller that can run a cycle, or
\* leave its loop, does so, and a shutdown that can go on goes on
SpecLive ==
    /\ Init /\ [][NextLifecycle]_vars
    /\ WF_vars(\E c \in Controllers, elapsed \in CycleSeconds :
                    asr_controller_main(c, elapsed))
    /\ WF_vars(\E s \in ShutdownCallers :
                    ShutdownTest(s) \/ ShutdownJoined(s)
                    \/ \E returns \in BOOLEAN : ShutdownJoinStale(s, returns))

\* reconfiguration, with malformed configurations among the inputs
NextConfig == Control \/ Misconfiguring

SpecConfig == Init /\ [][NextConfig]_vars

\* the page server's WAL receiver
Receiving == \E t \in Threads : ASR_RecordWalIngest(t, 4) \/ IngestAdd(t)

\* reconfiguration, malformed configurations included, under WAL ingest
NextConfigLoad == Receiving \/ NextConfig

SpecConfigLoad == Init /\ [][NextConfigLoad]_vars

\* ASR_StartController whether or not a controller thread is running
Restarting == \E ret \in {0, 11} : StartController(ControllerThreads, ret)

\* every controller thread created so far, at its loop
Cycling ==
    \E c \in ControllerThreads, elapsed \in CycleSeconds :
        asr_controller_main(c, elapsed)

Enabling == \E new_config \in LockConfigs : ASR_UpdateConfig(new_config)

\* start and shutdown called in any order and number
NextRestart == Restarting \/ Cycling \/ Enabling \/ Lifecycle

SpecRestart == Init /\ [][NextRestart]_vars

\* a scenario: a configuration is installed, then the load and the
\* smoother take turns
Scenario ==
    \/ (~hist.sc.begun /\ \E new_config \in ScenarioConfigs :
                              ASR_UpdateConfig(new_config))
    \/ \E load \in Loads : ScenarioIngest(load)
    \/ ScenarioTick

SpecScenario == Init /\ [][Scenario]_vars

\* the scenarios with the controller scheduled: the next tick comes, and
\* so does the tick period before it, be it without ingest
SpecSettle ==
    /\ Init /\ [][Scenario]_vars
    /\ WF_vars(ScenarioTick)
    /\ WF_vars(ScenarioIngest(Idle))

\* a run under one configuration whose load changes from tick to tick
Surging ==
    \/ (~hist.sc.begun /\ \E new_config \in ScenarioConfigs :
                              ASR_UpdateConfig(new_config))
    \/ \E load \in SurgeLoads : SurgeIngest(load)
    \/ ScenarioTick

SpecSurge == Init /\ [][Surging]_vars

Ticking ==
    \/ \E ret \in {0, 11} : ASR_StartController(ret)
    \/ \E c \in Controllers :
          \/ \E elapsed \in CycleSeconds : TickEnter(c, elapsed)
          \/ TickSmooth(c)
          \/ TickPublish(c)

\* ASR_UpdateConfig(ASR_GetConfig())
Borrowing ==
    \E u \in ConfigCallers :
        \/ ASR_GetConfig(u)
        \/ (u \in asr_config_lock.readers /\ UpdateConfigCall(u, ConfigPtr))

Configuring ==
    \E u \in ConfigCallers :
        \/ \E new_config \in LockConfigs \cup {NULL} :
              UpdateConfigCall(u, new_config)
        \/ UpdateConfigWrlock(u)
        \/ UpdateConfigCopyHead(u)
        \/ UpdateConfigCopyTail(u)

Reading ==
    \E r \in Readers :
        \/ GetCurrentBudgetCall(r)
        \/ ASR_ReadMetrics(r)

\* the API at the grain of its locks: ingest callers, the controller and a
\* thread that reconfigures
NextLocks == IngestLocks \/ Ticking \/ Configuring

SpecLocks == Init /\ [][NextLocks]_vars

\* the same grain: the controller, a thread that reconfigures and a reader
\* of the budget and of the snapshot
NextReaders == Ticking \/ Configuring \/ Borrowing \/ Reading

SpecReaders == Init /\ [][NextReaders]_vars

\* the same under fair scheduling: a thread that can take its next step
\* inside ASR_UpdateConfig or inside a tick takes it
SpecReadersLive ==
    /\ Init /\ [][NextReaders]_vars
    /\ WF_vars(\E u \in ConfigCallers :
                    UpdateConfigWrlock(u) \/ UpdateConfigCopyHead(u)
                    \/ UpdateConfigCopyTail(u))
    /\ WF_vars(\E c \in Controllers : TickSmooth(c) \/ TickPublish(c))

\* the controller thread step by step: the loop test, then the tick lock by
\* lock
Looping ==
    \E c \in Controllers :
        \/ LoopTest(c)
        \/ \E elapsed \in CycleSeconds : TickBegin(c, elapsed)
        \/ TickSmooth(c)
        \/ TickPublish(c)

Starting == \E ret \in {0, 11} : ASR_StartController(ret)

Stopping ==
    \E s \in ShutdownCallers :
        \/ ShutdownRequest(s)
        \/ ShutdownTest(s)
        \/ ShutdownJoined(s)
        \/ \E returns \in BOOLEAN : ShutdownJoinStale(s, returns)

\* start and shutdown around a controller that takes the loop test and the
\* tick as separate steps, with a thread that reconfigures
NextStop == Looping \/ Starting \/ Stopping \/ Configuring

\* under fair scheduling: the controller thread and the thread inside
\* ASR_UpdateConfig take their next step when they can, and a controller
\* that waits for its read lock gets it when the writers release it again
\* and again (a waiting reader is admitted at the writer's unlock)
SpecStop ==
    /\ Init /\ [][NextStop]_vars
    /\ WF_vars(Looping)
    /\ SF_vars(\E c \in Controllers, elapsed \in CycleSeconds :
                    TickBegin(c, elapsed))
    /\ WF_vars(\E u \in ConfigCallers :
                    UpdateConfigWrlock(u) \/ UpdateConfigCopyHead(u)
                    \/ UpdateConfigCopyTail(u))


\* ------------------------------------------------------------------ claims
InUnit(x) == 0 <= x /\ x <= FP

Counters == {"replay_tasks_count", "hot_misses", "wal_bytes_received"}

Requested(op) ==
    CASE op = "replay_tasks_count" -> hist.req_tasks
      [] op = "hot_misses" -> hist.req_misses
      [] op = "wal_bytes_received" -> hist.req_wal

\* C1: after init, whatever ingest calls, ticks and configuration updates
\* have run, get_budget() returns a value in [b_min, b_max] of the installed
\* configuration.
C1_BudgetWithinInstalledBounds ==
    /\ asr_config.BMIN <= ASR_GetCurrentBudget
    /\ ASR_GetCurrentBudget <= asr_config.BMAX

\* C2: the worker reads the budget once, at loop entry, into replay_budget
\* and applies at most that many records in the entry, whatever budget the
\* controller publishes meanwhile.
C2_SliceWithinBudgetRead ==
    wrk.records_replayed <= wrk.replay_budget

\* C2 witness: an entry cut short by its budget, records still pending below
\* the target, while the published budget has moved away from the one read
C2_Witness ==
    /\ wrk.pc = "idle"
    /\ wrk.records_replayed = wrk.replay_budget
    /\ reader_state < wrk.lsn
    /\ reader_state < WalLen
    /\ asr_metrics.current_budget # wrk.replay_budget

\* C3: over all entries and budget changes the records applied are exactly
\* the first records of the WAL stream, in LSN order, none skipped or
\* repeated: what a replay without a budget applies.
C3_AppliedIsWalPrefix ==
    /\ Len(applied) = reader_state
    /\ Len(applied) <= WalLen
    /\ \A i \in 1 .. Len(applied) : applied[i] = i

\* C3 witness: the whole stream applied in two entries, the first one cut by
\* the budget
C3_Witness ==
    /\ Len(applied) = WalLen
    /\ hist.entries = 2
    /\ wrk.records_replayed > 0
    /\ wrk.records_replayed < WalLen

\* C4: while enabled = false the three record_* calls change nothing: the
\* counters keep their values, no increment is left in flight; and as long as
\* the configuration has been disabled since init the counters are 0 and the
\* budget is still the b_min that init published.
C4_DisabledIngestIsNoOp ==
    /\ [](~hist.ever_enabled =>
            /\ \A op \in Counters : asr_metrics[op] = 0 /\ Pending(op) = 0
            /\ asr_metrics.current_budget = asr_default_config.BMIN)
    /\ [][ ( /\ ~asr_config.enable_adaptive_sr
             /\ \E t \in Threads :
                  \/ \E count \in TaskCounts : ASR_RecordReplayTask(t, count)
                  \/ ASR_RecordHotMiss(t)
                  \/ \E bytes \in WalBytes : ASR_RecordWalIngest(t, bytes) )
           => UNCHANGED << asr_metrics, ing >> ]_vars

\* C4 witness: ingest calls were made, and dropped, under a configuration
\* disabled since init
C4_Witness ==
    /\ hist.dropped
    /\ ~hist.ever_enabled
    /\ asr_metrics.current_budget = asr_default_config.BMIN

\* C5: a controller tick that finds enabled = false does nothing: no
\* smoother state, no snapshot field and no budget is written.
C5_DisabledTickSkipped ==
    [][ ( /\ ~asr_config.enable_adaptive_sr
          /\ \E c \in Controllers, elapsed \in ElapsedSeconds :
                asr_controller_main(c, elapsed) )
        => UNCHANGED asr_metrics ]_vars

\* C6: at every tick the three pressures and the aggressiveness, before the
\* step limit and as stored, are in [0,1].
C6_PressuresAndAggressivenessInUnit ==
    /\ InUnit(obs.eq) /\ InUnit(obs.em) /\ InUnit(obs.ew)
    /\ InUnit(obs.target)
    /\ InUnit(obs.agg)
    /\ InUnit(asr_metrics.current_aggressiveness)

\* C6 witness: a tick with one pressure strictly inside (0,1) and another
\* saturated at 1
C6_Witness ==
    /\ hist.ticks >= 1
    /\ 0 < obs.eq /\ obs.eq < FP
    /\ obs.ew = FP

\* C7: the aggressiveness stored by tick k differs from the one stored by
\* tick k-1 (0 before the first tick) by at most max_step.
C7_AggressivenessStepLimited ==
    /\ hist.ticks = 0 => asr_metrics.current_aggressiveness = 0
    /\ obs.agg = asr_metrics.current_aggressiveness
    /\ Abs(obs.agg - obs.agg_prev) <= obs.cfg.MAX_STEP

\* C7 witness: a tick whose weighted aggressiveness was further than
\* max_step from the previous one, so the limit acted
C7_Witness ==
    /\ hist.ticks >= 1
    /\ Abs(obs.target - obs.agg_prev) > obs.cfg.MAX_STEP
    /\ obs.agg # obs.target

\* C8: the budget published after tick k+1 equals the one after tick k or
\* differs from it by at least hyst.
C8_BudgetHysteresis ==
    /\ obs.budget = asr_metrics.current_budget
    /\ \/ obs.budget = obs.budget_prev
       \/ Abs(obs.budget - obs.budget_prev) >= obs.cfg.HYST

\* C8 witness: a second tick whose raw budget was closer than hyst to the
\* published one and was suppressed
C8_Witness ==
    /\ hist.ticks >= 2
    /\ obs.budget_raw # obs.budget_prev
    /\ obs.budget = obs.budget_prev

\* C9: once a tick has read the task counter after the last increment, the
\* per-tick task deltas sum to the total requested, modulo the word size.
C9_TaskDeltasSumToRequested ==
    (~hist.tasks_unseen /\ Pending("replay_tasks_count") = 0)
        => hist.sum_tasks_delta = hist.req_tasks

\* C9 witness: two ticks each saw a share of the increments, the counter
\* having wrapped in between
C9_Witness ==
    /\ hist.ticks = 2
    /\ ~hist.tasks_unseen /\ Pending("replay_tasks_count") = 0
    /\ obs.tasks_delta > 0
    /\ hist.sum_tasks_delta # obs.tasks_delta
    /\ asr_metrics.replay_tasks_count < obs.tasks_delta

\* C10: with concurrent callers every accepted increment is either still in
\* flight or in its counter: each counter equals the sum requested minus
\* what is pending, modulo the word size; nothing is lost.
C10_NoLostIncrement ==
    \A op \in Counters :
        (asr_metrics[op] + Pending(op)) % Mod = Requested(op)

\* C10 witness: the increments of two callers that were in flight on one
\* counter at the same time are both in it
C10_Witness ==
    /\ \A t \in Threads : ing[t].pc = "idle"
    /\ hist.overlap
    /\ hist.calls = 2
    /\ \E op \in Counters : asr_metrics[op] = Requested(op) /\ Requested(op) > 0

\* C11: the three ingest functions take no lock: a caller outside a call can
\* pass the guard of each of them, and a caller past the guard can do its
\* fetch-add, in every state, whoever holds asr_config_lock or metrics_lock.
C11_IngestNeverBlocks ==
    \A t \in Threads :
        /\ (ing[t].pc = "idle" /\ hist.calls < MaxIngest) =>
              /\ ENABLED ASR_RecordReplayTask(t, 1)
              /\ ENABLED ASR_RecordHotMiss(t)
              /\ ENABLED ASR_RecordWalIngest(t, 4)
        /\ ing[t].pc = "add" => ENABLED IngestAdd(t)

\* C11 witness: one call passed its guard while ASR_UpdateConfig held the
\* write lock, and another added to the task counter after the tick in
\* progress had read it, the tick holding both its locks
C11_Witness ==
    /\ \E t \in Threads :
          ing[t].pc = "add" /\ ing[t].held \in ConfigCallers
    /\ api.tick.pc = "smoothed"
    /\ metrics_lock \in Controllers
    /\ asr_metrics.replay_tasks_count # asr_metrics.last_total_tasks

\* C12: get_budget is wait-free: a caller of ASR_GetCurrentBudget can
\* complete its read in every state, whatever the controller tick or any
\* other thread is doing.
C12_GetBudgetNeverBlocks ==
    \A r \in Readers : ENABLED GetCurrentBudgetCall(r)

\* C13: every snapshot ASR_ReadMetrics returns has its EWMAs, its
\* aggressiveness, its budget and its time written by one and the same
\* completed tick, and that tick is the one whose budget the reader got
\* from ASR_GetCurrentBudget before, or a later one.
C13_SnapshotWholeAndNotOlder ==
    LET snap == api.rdr.snap
    IN /\ snap.ewma = snap.agg
       /\ snap.agg = snap.budget
       /\ snap.budget = snap.time
       /\ snap.budget >= api.rdr.snap_floor

\* C13 witness: the reader got the budget of the first tick, then a
\* snapshot, which was the one of the second tick, with another budget
C13_Witness ==
    /\ api.rdr.snap_floor = 1
    /\ api.rdr.snap.time = 2
    /\ api.rdr.budget_tick = 1
    /\ api.rdr.budget # asr_metrics.current_budget

\* the configuration fields a tick reads
TickFields ==
    { "QSTAR", "RSTAR", "WSTAR", "BMIN", "BMAX", "WQ", "WM", "WW", "HYST",
      "MAX_STEP", "verbose_metrics" }

\* C14: the fields one tick reads, before and after the aggressiveness is
\* computed, all come from one installed configuration, and no memcpy of
\* ASR_UpdateConfig is under way while a tick is between its lock and its
\* unlock.
C14_TickConfigNotTorn ==
    /\ api.tick.pc = "idle" =>
          \E cfg \in LockConfigs \cup {InitConfig} :
              \A f \in TickFields : api.tick.cfg[f] = cfg[f]
    /\ api.tick.pc # "idle" =>
          /\ api.upd.pc \notin {"copy", "copied"}
          /\ asr_config \in LockConfigs \cup {InitConfig}

\* C14 witness: ASR_UpdateConfig was called with another configuration
\* while the second tick was between its two halves; it waits for the
\* write lock
C14_Witness ==
    /\ api.tick.pc = "smoothed"
    /\ hist.ticks = 1
    /\ api.upd.pc = "wrlock"
    /\ api.upd.new_config # asr_config
    /\ api.tick.cfg = asr_config

\* C15: update_config(get_config()) returns and changes nothing: the caller
\* is never left at the write lock of ASR_UpdateConfig while the read lock
\* it took in ASR_GetConfig is still held, a wait that nothing ends; and
\* the installed configuration is a whole one whenever no memcpy is under
\* way.
C15_UpdateOfGetConfigReturns ==
    /\ \A u \in ConfigCallers :
          api.upd.pc = "wrlock" => u \notin asr_config_lock.readers
    /\ api.upd.pc \notin {"copy", "copied"} =>
          asr_config \in LockConfigs \cup {InitConfig}

\* C16: update_config with a malformed configuration (b_max <= b_min, a
\* negative weight) is rejected: the installed configuration stays as it was.
C16_MalformedConfigRejected ==
    [][ (\E new_config \in MalformedConfigs : ASR_UpdateConfig(new_config))
        => UNCHANGED asr_config ]_vars

\* C17: after init(), from any prior state, the default configuration is
\* installed, the raw counters and all smoother state are zero and the
\* budget is b_min.
C17_InitResetsEverything ==
    [][ ASR_Init => (asr_config' = asr_default_config /\ asr_metrics' = InitMetrics)
      ]_vars

\* C18: start_controller under enabled = false spawns nothing and writes
\* nothing; and as long as no controller thread was created there is no
\* live controller, no tick has run and the budget is the one init set.
C18_DisabledStartIsNoOp ==
    /\ [](asr_controller_tid \notin Controllers =>
            /\ ctl = {}
            /\ hist.ticks = 0
            /\ asr_metrics.current_budget = InitMetrics.current_budget)
    /\ [][ ( /\ ~asr_config.enable_adaptive_sr
             /\ \E ret \in {0, 11} : ASR_StartController(ret) )
           => UNCHANGED << ctl, asr_controller_tid, asr_shutdown_requested,
                           asr_metrics >> ]_vars

\* C18 witness: the configuration was enabled and is disabled again, misses
\* were counted meanwhile, no controller exists and start_controller can be
\* called
C18_Witness ==
    /\ ~asr_config.enable_adaptive_sr
    /\ hist.ever_enabled
    /\ asr_metrics.hot_misses > 0
    /\ ctl = {}
    /\ asr_controller_tid = NoHandle
    /\ ENABLED ASR_StartController(0)

\* C19: a failed spawn leaves the subsystem Stopped: no controller, the
\* metrics and the handle of the controller thread as they were, ingest
\* still counted, and a later shutdown() returns: it never joins a handle
\* that names no thread.
C19_SpawnFailureLeavesStopped ==
    /\ [](api.sd.pc # "hung" /\ (api.sd.pc = "join" => api.sd.tid \in Controllers))
    /\ [][ (asr_config.enable_adaptive_sr /\ ASR_StartController(11))
           => UNCHANGED << ctl, asr_metrics, asr_controller_tid >> ]_vars

\* C20: under fair scheduling a shutdown() that has set the stop flag
\* returns, whatever ingest, configuration calls and start_controller do
\* meanwhile: while it waits in pthread_join for the running controller the
\* flag is still set, so that the controller leaves its loop at its next
\* test, and the call comes back.
C20_ShutdownReturns ==
    /\ []((api.sd.pc = "join" /\ api.sd.tid \in ctl) => asr_shutdown_requested # 0)
    /\ (api.sd.pc = "requested") ~> (api.sd.pc = "idle")

\* C21: once shutdown() has returned, and until start_controller is called
\* again, the controller is Stopped: no controller thread is left, so that
\* nothing writes the budget, the snapshot fields or the smoother state.
C21_StoppedAfterShutdown ==
    (asr_shutdown_requested # 0 /\ api.sd.pc = "idle") => ctl = {}

\* C22: whatever start_controller and shutdown calls are made, at most one
\* controller thread exists.
C22_OneControllerThread ==
    Cardinality(ctl) <= 1

\* C23: no data race: a thread that reads the configuration does so
\* under asr_config_lock, hence never while ASR_UpdateConfig is between its
\* write lock and its unlock; and a tick that has stored smoother state
\* holds metrics_lock and its read lock on the configuration.
C23_SharedStateUnderLocks ==
    /\ \A t \in Threads : ing[t].pc = "add" => ing[t].held = NoThread
    /\ api.tick.pc = "smoothed" =>
          /\ metrics_lock \in ctl
          /\ asr_config_lock.readers \cap ctl # {}

\* C24: no deadlock: a thread that waits for the write lock on the
\* configuration waits only for threads inside a call that releases its
\* lock, and under fair scheduling every ASR_UpdateConfig that has been
\* called and every tick that has begun completes.
C24_EveryOperationCompletes ==
    /\ [](api.upd.pc = "wrlock" =>
            asr_config_lock.readers \subseteq
                {c \in Controllers : api.tick.pc # "idle"})
    /\ (api.upd.pc = "wrlock") ~> (api.upd.pc = "idle")
    /\ (api.tick.pc = "entered") ~> (api.tick.pc = "idle")

\* C25: the budgeted loop makes progress: an entry that returns without a
\* record applied had none pending below its target, every pass counted by
\* records_replayed has applied its record, and with the worker entered
\* again and again every record up to the target is applied in the end,
\* whatever budgets the controller publishes meanwhile.
C25_ReplayMakesProgress ==
    /\ []((wrk.pc = "idle" /\ hist.entries > 0 /\ wrk.records_replayed = 0)
            => ~(reader_state < wrk.lsn /\ XLogReadRecord(reader_state) # NULL))
    /\ [](Len(applied) >= wrk.records_replayed)
    /\ <>(Len(applied) = WalLen)

\* C25 witness: the first entry was cut by its budget with records still
\* pending, ticks ran, and the second entry applied the rest
C25_Witness ==
    /\ wrk.pc = "idle"
    /\ hist.entries = 2
    /\ hist.ticks > 0
    /\ Len(applied) = WalLen
    /\ wrk.records_replayed >= 1
    /\ wrk.records_replayed < wrk.replay_budget

\* a scenario under the enabled defaults whose load has been the same at
\* every tick so far
Steady(load) ==
    /\ asr_config = EnabledDefaults
    /\ hist.sc.begun
    /\ hist.sc.load = load
    /\ ~hist.sc.varied
    /\ ~hist.sc.quiesced
    /\ hist.sc.pc = "ingest"

\* C26: hot-miss dominated load under the enabled defaults, 50 tasks and 25
\* hot misses per one-second tick: at every tick e_m is 1 and the
\* aggressiveness moves by at most 0.2; from the third tick on the
\* aggressiveness is 0.6 and the budget 1204; by the tenth tick
\* miss_rate_ewma is about 25/51.
C26_HotMissDominated ==
    (Steady(HotMissDominated) /\ hist.sc.ticks >= 1) =>
        /\ obs.em = FP
        /\ Abs(obs.agg - obs.agg_prev) <= asr_config.MAX_STEP
        /\ hist.sc.ticks >= 3 =>
              /\ asr_metrics.current_aggressiveness = (6 * FP) \div 10
              /\ asr_metrics.current_budget = 1204
        /\ hist.sc.ticks >= 10 =>
              /\ asr_metrics.miss_rate_ewma >= (45 * FP) \div 100
              /\ asr_metrics.miss_rate_ewma <= (50 * FP) \div 100

\* C27 as stated: pure WAL pressure under the enabled defaults, 20 MiB per
\* one-second tick: e_q and e_m stay 0 and after ten ticks the published
\* budget is 209.
C27_WalPressureReaches209 ==
    (Steady(WalPressure) /\ hist.sc.ticks >= 1) =>
        /\ obs.eq = 0 /\ obs.em = 0
        /\ hist.sc.ticks >= 10 => asr_metrics.current_budget = 209

\* C27 as amended: under that load e_q and e_m stay 0, wal_bps_ewma stays
\* below 20 MiB/s, e_w below 1 and the aggressiveness below 0.1; the
\* published budget never falls, moves by at least hyst when it moves, and
\* stays below 209; after ten ticks e_w is above 0.9 and the budget
\* between 180 and 190.
C27_WalPressureRisesBelow209 ==
    (Steady(WalPressure) /\ hist.sc.ticks >= 1) =>
        /\ obs.eq = 0 /\ obs.em = 0
        /\ asr_metrics.wal_bps_ewma < 20 * FP
        /\ obs.ew < FP
        /\ asr_metrics.current_aggressiveness < FP \div 10
        /\ \/ obs.budget = obs.budget_prev
           \/ obs.budget >= obs.budget_prev + asr_config.HYST
        /\ asr_metrics.current_budget < 209
        /\ hist.sc.ticks = 10 =>
              /\ obs.ew > (9 * FP) \div 10
              /\ asr_metrics.current_budget >= 180
              /\ asr_metrics.current_budget <= 190

\* C27 witness: the tenth tick of the scenario, the budget raised by the
\* eighth and held since
C27_Witness ==
    /\ Steady(WalPressure)
    /\ hist.sc.ticks = 10
    /\ obs.budget = obs.budget_prev
    /\ obs.budget_raw > obs.budget
    /\ asr_metrics.current_budget > asr_config.BMIN

\* the inputs stopped when the aggressiveness was 1.0, max_step being 0.2
DropFromFull ==
    /\ hist.sc.quiesced
    /\ hist.sc.from = FP
    /\ asr_config.MAX_STEP = (2 * FP) \div 10
    /\ hist.sc.pc = "ingest"
    /\ hist.sc.quiet \in 1 .. 5

\* C28 as stated: from aggressiveness 1.0, k ticks after the inputs have
\* stopped the aggressiveness is 1.0 - 0.2 k: 0.8, 0.6, ..., 0.0 at the
\* fifth.
C28_DropIsOneStepPerTick ==
    DropFromFull =>
        asr_metrics.current_aggressiveness = FP - hist.sc.quiet * asr_config.MAX_STEP

\* C28 as amended: k ticks after the inputs have stopped the
\* aggressiveness is at least 1.0 - 0.2 k, and exactly that when every one
\* of these ticks found the weighted pressure of the decaying EWMAs at
\* least max_step below the aggressiveness.
C28_DropIsAtMostOneStepPerTick ==
    DropFromFull =>
        /\ asr_metrics.current_aggressiveness >=
              FP - hist.sc.quiet * asr_config.MAX_STEP
        /\ ~hist.sc.lagged =>
              asr_metrics.current_aggressiveness =
                  FP - hist.sc.quiet * asr_config.MAX_STEP

\* C28 witness: the fifth tick after the inputs stopped at aggressiveness
\* 1.0 brought it to 0.0, the EWMAs having been above their references
\* when the inputs stopped
C28_Witness ==
    /\ DropFromFull
    /\ hist.sc.quiet = 5
    /\ ~hist.sc.lagged
    /\ asr_metrics.current_aggressiveness = 0
    /\ asr_metrics.queue_ewma > 0

\* C29: steady idle under the enabled defaults: after each tick without
\* ingest the three EWMAs and the aggressiveness are 0 and the budget is 10.
C29_SteadyIdle ==
    (Steady(Idle) /\ hist.sc.ticks >= 1) =>
        /\ asr_metrics.queue_ewma = 0
        /\ asr_metrics.miss_rate_ewma = 0
        /\ asr_metrics.wal_bps_ewma = 0
        /\ asr_metrics.current_aggressiveness = 0
        /\ asr_metrics.current_budget = 10

\* C29 witness: the fifth idle tick
C29_Witness ==
    /\ Steady(Idle)
    /\ hist.sc.ticks = 5
    /\ asr_metrics.last_measurement = now

\* C30: once the three pressures are 0 and the aggressiveness has been 0.0
\* for two ticks, the published budget is BMIN.
C30_BudgetBackAtMinimum ==
    ( /\ hist.sc.ticks >= 2
      /\ hist.sc.pc = "ingest"
      /\ obs.eq = 0 /\ obs.em = 0 /\ obs.ew = 0
      /\ obs.agg_prev = 0
      /\ asr_metrics.current_aggressiveness = 0 )
    => asr_metrics.current_budget = asr_config.BMIN

\* C31: every tick computes the raw hot-miss fraction m_raw = dmisses /
\* (dtasks + 1) from the deltas of the two counters since the previous tick
\* (dmisses itself when dtasks = 0) and updates miss_rate_ewma with it: from
\* 0, k hot misses and a tick give alpha * k / (dtasks + 1), and a tick
\* without new misses decays it.
C31_MissRateFollowsRawFraction ==
    [][ hist'.ticks = hist.ticks + 1 =>
          LET misses_delta == U64Sub(asr_metrics.hot_misses,
                                     asr_metrics.last_total_misses)
              tasks_delta == U64Sub(asr_metrics.replay_tasks_count,
                                    asr_metrics.last_total_tasks)
              m_raw == (misses_delta * FP) \div (tasks_delta + 1)
          IN asr_metrics'.miss_rate_ewma =
                 ewma_update(asr_metrics.miss_rate_ewma, m_raw) ]_vars

\* a tick of a run under one configuration has just run
AfterSurgeTick == hist.sc.ticks >= 1 /\ hist.sc.pc = "ingest"

\* C32 as stated: whatever the counter deltas, a huge one after a counter
\* has jumped included, one tick moves the published budget by at most
\* max_step * (b_max - b_min).
C32_BudgetJumpWithinOneStep ==
    AfterSurgeTick =>
        Abs(obs.budget - obs.budget_prev) * FP
            <= obs.cfg.MAX_STEP * (obs.cfg.BMAX - obs.cfg.BMIN)

\* C32 as amended: whatever the counter deltas, one tick moves the raw
\* budget, the image of the aggressiveness rounded down, by less than
\* max_step * (b_max - b_min) + 1, and the published budget by less than
\* max_step * (b_max - b_min) + hyst: the hysteresis may have held the
\* published budget up to hyst - 1 away from the raw one.
C32_BudgetJumpWithinStepPlusHyst ==
    AfterSurgeTick =>
        /\ Abs(budget_from_aggressiveness(obs.agg, obs.cfg)
               - budget_from_aggressiveness(obs.agg_prev, obs.cfg)) * FP
              < obs.cfg.MAX_STEP * (obs.cfg.BMAX - obs.cfg.BMIN) + FP
        /\ Abs(obs.budget - obs.budget_prev) * FP
              < obs.cfg.MAX_STEP * (obs.cfg.BMAX - obs.cfg.BMIN)
                  + obs.cfg.HYST * FP

\* C32 witness: a surge of tasks met a budget the hysteresis was holding
\* below the raw one; the step limit cut the aggressiveness and the
\* published budget moved by more than max_step * (b_max - b_min)
C32_Witness ==
    /\ AfterSurgeTick
    /\ obs.eq = FP
    /\ obs.target > obs.agg
    /\ obs.agg = obs.agg_prev + obs.cfg.MAX_STEP
    /\ obs.agg_prev > 0
    /\ Abs(obs.budget - obs.budget_prev) * FP
          > obs.cfg.MAX_STEP * (obs.cfg.BMAX - obs.cfg.BMIN)

\* C33: the hysteresis step: a tick that computes the raw budget B leaves
\* the published budget as it was when |B - published| < hyst and publishes
\* exactly B otherwise; with 1204 published, hyst 20 and a raw budget of
\* 1215 the budget stays 1204.
C33_HysteresisStep ==
    /\ Hysteresis(1215, 1204, 20) = 1204
    /\ asr_metrics.current_budget = obs.budget
    /\ obs.budget = IF Abs(obs.budget_raw - obs.budget_prev) < obs.cfg.HYST
                    THEN obs.budget_prev
                    ELSE obs.budget_raw

\* C33 witness: a budget published by an earlier tick was kept by a tick
\* whose raw budget was 11 away from it, less than hyst
C33_Witness ==
    /\ hist.sc.ticks >= 2
    /\ hist.sc.pc = "ingest"
    /\ obs.budget_prev > obs.cfg.BMIN
    /\ Abs(obs.budget_raw - obs.budget_prev) = 11
    /\ obs.cfg.HYST = 20
    /\ asr_metrics.current_budget = obs.budget_prev

\* the units added to a counter so far, modulo the word size: what the
\* callers asked for less what is still in flight
Added(op) == (Requested(op) + Mod * MaxIngest - Pending(op)) % Mod

\* C34: counter overflow is transparent: the delta a tick computes for each
\* of the three counters equals the units added to it since the previous
\* tick read it, also when the counter has wrapped past the word size in
\* between (words of CounterBits bits, arithmetic modulo 2^CounterBits).
C34_WrapIsTransparent ==
    [][ hist'.ticks = hist.ticks + 1 =>
          /\ obs'.tasks_delta =
                (Added("replay_tasks_count") + Mod
                    - asr_metrics.last_total_tasks) % Mod
          /\ obs'.misses_delta =
                (Added("hot_misses") + Mod - asr_metrics.last_total_misses) % Mod
          /\ obs'.wal_delta =
                (Added("wal_bytes_received") + Mod
                    - asr_metrics.last_wal_bytes) % Mod ]_vars

\* C34 witness: the WAL counter wrapped between the first tick and the
\* second, which found it below its previous reading and computed the
\* units added
C34_Witness ==
    /\ hist.ticks = 2
    /\ obs.wal_delta = 4
    /\ asr_metrics.wal_bytes_received < obs.wal_delta
    /\ asr_metrics.last_wal_bytes = asr_metrics.wal_bytes_received
    /\ Pending("wal_bytes_received") = 0

\* C35: draining: once shutdown has set the stop flag the controller
\* finishes the tick it is in, or the one tick its last test of the flag
\* had cleared it to start, and then exits: it is never cleared to start a
\* tick while the flag is set, it never completes two ticks after the flag
\* was set, and under fair scheduling it exits.
C35_DrainsWithinOneTick ==
    /\ [](api.tick.drained <= 1)
    /\ [][ (api.tick.pc = "idle" /\ api'.tick.pc = "cleared")
           => asr_shutdown_requested = 0 ]_vars
    /\ \A c \in Controllers :
          (asr_shutdown_requested # 0 /\ c \in ctl) ~> (c \notin ctl)

\* C35 witness: the flag was set while the controller was in its first
\* tick or cleared to start it; that tick ran to its end, the thread left
\* its loop at the next test and the join of ASR_Shutdown can return
C35_Witness ==
    /\ asr_shutdown_requested # 0
    /\ api.tick.drained = 1
    /\ api.tick.pc = "idle"
    /\ ctl = {}
    /\ hist.ticks = 1
    /\ api.sd.pc = "joined"

\* the metrics and the observations of a tick with everything that belongs
\* to the hot-miss counter blanked
WithoutMisses(m) == [m EXCEPT !.hot_misses = 0, !.last_total_misses = 0]

ObsWithoutMisses(o) == [o EXCEPT !.misses_delta = 0]

C37_TickWritesBudgetInRange ==
    [][ (hist'.ticks = hist.ticks + 1 /\ asr_config.BMAX >= asr_config.BMIN)
        => \/ asr_metrics'.current_budget = asr_metrics.current_budget
           \/ /\ asr_config.BMIN <= asr_metrics'.current_budget
              /\ asr_metrics'.current_budget <= asr_config.BMAX ]_vars

\* C37 witness: a tick published a budget under one configuration, and the
\* next tick, under a configuration whose range lies above that budget,
\* computed a raw budget in its range and left the published one as it was
C37_Witness ==
    /\ hist.ticks = 2
    /\ obs.cfg.BMAX >= obs.cfg.BMIN
    /\ asr_metrics.current_budget = obs.budget_prev
    /\ asr_metrics.current_budget < obs.cfg.BMIN
    /\ obs.budget_raw >= obs.cfg.BMIN
    /\ obs.budget_prev # InitMetrics.current_budget

\* ticks within which the aggressiveness is back at 0 after the loads of
\* the scenarios have stopped
SettleTicks == 7

\* C38: quiescent convergence: when ingest stops for good and the
\* controller keeps ticking under an unchanged valid configuration, the
\* aggressiveness reaches 0 after finitely many ticks (SettleTicks here,
\* for the runs that leave room for as many), and from then on it stays 0
\* and the published budget is constant and closer than HYST to BMIN.
C38_QuiescentConvergence ==
    /\ [](asr_metrics.current_aggressiveness = 0 =>
            Abs(asr_metrics.current_budget - asr_config.BMIN) < asr_config.HYST)
    /\ [][ (hist.sc.quiesced /\ asr_metrics.current_aggressiveness = 0)
           => /\ asr_metrics'.current_aggressiveness = 0
              /\ asr_metrics'.current_budget = asr_metrics.current_budget ]_vars
    /\ (hist.sc.quiesced /\ hist.sc.quiet = 0
          /\ hist.sc.ticks + SettleTicks <= ScenarioTicks)
         ~> (hist.sc.quiesced /\ hist.sc.quiet <= SettleTicks
               /\ asr_metrics.current_aggressiveness = 0)

\* C38 witness: the inputs stopped at a positive aggressiveness; it is back
\* at 0 and has been for a tick, and the budget rests above BMIN, closer
\* than HYST to it
C38_Witness ==
    /\ hist.sc.quiesced
    /\ hist.sc.from > 0
    /\ hist.sc.quiet >= 2
    /\ hist.sc.pc = "ingest"
    /\ obs.agg_prev = 0
    /\ asr_metrics.current_aggressiveness = 0
    /\ asr_metrics.current_budget > asr_config.BMIN
    /\ asr_metrics.current_budget < asr_config.BMIN + asr_config.HYST

\* what ASR_Shutdown can change apart from its caller's position
ShutdownVisible ==
    << asr_config, asr_metrics, asr_shutdown_requested, asr_controller_tid,
       ctl, now, obs, asr_config_lock, metrics_lock >>

\* C39: shutdown idempotence: asr_controller_tid is 0 until start_controller
\* creates a thread and again once shutdown has joined it; a shutdown()
\* that finds it 0 returns without joining anything, and when the flag is
\* set already, as after a completed shutdown, the call changes nothing; no
\* handle of a controller thread is joined twice.
C39_ShutdownIdempotent ==
    /\ [][ asr_controller_tid' # asr_controller_tid =>
             \/ /\ asr_config.enable_adaptive_sr
                /\ \E ret \in {0, 11} : ASR_StartController(ret)
             \/ /\ asr_controller_tid' = NoHandle
                /\ \E s \in ShutdownCallers : ShutdownJoined(s) ]_vars
    /\ [][ (asr_controller_tid = NoHandle
              /\ \E s \in ShutdownCallers : ShutdownTest(s))
           => /\ api'.sd = IdleApi.sd
              /\ UNCHANGED ShutdownVisible ]_vars
    /\ [][ (asr_shutdown_requested # 0
              /\ \E s \in ShutdownCallers : ShutdownRequest(s))
           => UNCHANGED ShutdownVisible ]_vars
    /\ [][ (asr_controller_tid # NoHandle
              /\ \E s \in ShutdownCallers : ShutdownTest(s))
           => asr_controller_tid \notin hist.joined ]_vars

\* C39 witness: a shutdown() has joined the controller and returned, and a
\* second one has stored the flag and is about to find the handle 0
C39_Witness ==
    /\ hist.joined = {"c1"}
    /\ api.sd.pc = "requested"
    /\ asr_controller_tid = NoHandle
    /\ asr_shutdown_requested # 0
    /\ ctl = {}
    /\ hist.ticks > 0

====
